---- MODULE Spec2Model ----
(***************************************************************************)
(* A model of the validation engine of voluptuous (src/voluptuous.py):     *)
(* Schema compilation and the validators it produces for scalars,          *)
(* dictionaries and sequences, the markers Required/Optional/Extra and the *)
(* combinators Any and All.                                                *)
(*                                                                         *)
(* Python values are tagged records [t |-> <type name>, v |-> <payload>].  *)
(* A dict is the sequence of its (key, value) pairs in iteration order, a  *)
(* list the sequence of its elements.  Messages are sequences of string    *)
(* pieces, so that 'msg + suffix' is sequence concatenation.  A call       *)
(* either returns, Ok(v), or raises: Raise(e) for a plain Invalid and      *)
(* RaiseMultiple(errors) for a MultipleInvalid.                            *)
(***************************************************************************)
EXTENDS Integers, Sequences, FiniteSets

VARIABLES schema, data, hash_order, pc, raw, result, again, counter, effect

schema_vars == <<schema, data, hash_order, pc, raw, result, again, counter, effect>>

---------------------------------------------------------------------------
(* Python values *)

PyInt(n) == [t |-> "int", v |-> n]
PyStr(s) == [t |-> "str", v |-> s]
\* True and False, held by the integer they equal
PyBool(b) == [t |-> "bool", v |-> IF b THEN 1 ELSE 0]
PyDict(pairs) == [t |-> "dict", v |-> pairs]
PyList(elems) == [t |-> "list", v |-> elems]
PyTuple(elems) == [t |-> "tuple", v |-> elems]
\* str(x) of a container x: the string that spells x
PyRepr(x) == [t |-> "str", v |-> "repr", repr |-> x]
Pair(k, x) == [key |-> k, value |-> x]

None == [t |-> "NoneType", v |-> "None"]
\* msg=None: no message configured
NoMsg == <<>>
UNDEFINED == [t |-> "Undefined", v |-> "..."]

\* d[k] = x on a dict held as a sequence of pairs: an existing key keeps its
\* position, a new key is appended.
RECURSIVE DictSet(_, _, _)
DictSet(pairs, k, x) ==
    IF pairs = <<>> THEN <<Pair(k, x)>>
    ELSE IF Head(pairs).key = k THEN <<Pair(k, x)>> \o Tail(pairs)
    ELSE <<Head(pairs)>> \o DictSet(Tail(pairs), k, x)

DictKeys(pairs) == {pairs[i].key : i \in 1..Len(pairs)}
DictGet(pairs, k) == (CHOOSE i \in 1..Len(pairs) : pairs[i].key = k)
DictValue(pairs, k) == pairs[DictGet(pairs, k)].value

\* isinstance(data, type): bool is a subclass of int
IsInstance(x, name) ==
    name = "object" \/ x.t = name \/ (name = "int" /\ x.t = "bool")

\* x == y: True == 1 and False == 0
PyEq(x, y) == x = y \/ ({x.t, y.t} \subseteq {"int", "bool"} /\ x.v = y.v)

---------------------------------------------------------------------------
(* Errors: Invalid and MultipleInvalid *)

\* Invalid.__init__: path defaults to [], error_message to the message.
Invalid(message, path, error_message) ==
    [msg |-> message, path |-> path,
     error_message |-> IF error_message = NoMsg THEN message ELSE error_message]

Ok(x) == [k |-> "ok", v |-> x]
Raise(e) == [k |-> "Invalid", errors |-> <<e>>]
RaiseMultiple(errors) == [k |-> "MultipleInvalid", errors |-> errors]
RaiseValueError == [k |-> "ValueError", errors |-> <<>>]

IsExc(r) == r.k \in {"Invalid", "MultipleInvalid"}

\* A TypeError is no Invalid and no ValueError: no handler of the validators
\* catches it, it leaves every call up to the caller of the Schema.
RaiseTypeError == [k |-> "TypeError", errors |-> <<>>]
IsTypeError(r) == r.k = "TypeError"

\* e.msg, e.path, e.error_message: MultipleInvalid answers with errors[0].
ExcMsg(r) == r.errors[1].msg
ExcPath(r) == r.errors[1].path
ExcErrorMessage(r) == r.errors[1].error_message

---------------------------------------------------------------------------
(* Schema nodes *)

Type(name) == [s |-> "type", name |-> name]
Lit(x) == [s |-> "lit", val |-> x]
Extra == [s |-> "Extra"]
DictSchema(items) == [s |-> "dict", items |-> items]
ListSchema(alts) == [s |-> "list", alts |-> alts]
TupleSchema(alts) == [s |-> "tuple", alts |-> alts]
Item(k, x) == [key |-> k, value |-> x]
Required(k, msg, default) ==
    [s |-> "Required", schema |-> k, msg |-> msg, default |-> default]
Optional(k, msg) == [s |-> "Optional", schema |-> k, msg |-> msg]
Any(validators, msg, required, extra) ==
    [s |-> "Any", validators |-> validators, msg |-> msg,
     required |-> required, extra |-> extra]
All(validators, msg, required, extra) ==
    [s |-> "All", validators |-> validators, msg |-> msg,
     required |-> required, extra |-> extra]
Coerce(name, msg) == [s |-> "Coerce", type |-> name, msg |-> msg]
ExactSequence(validators, msg) ==
    [s |-> "ExactSequence", validators |-> validators, msg |-> msg]

\* Schema.__init__ keeps the tree and the two flags.
Schema(tree, required, extra) ==
    [schema |-> tree, required |-> required, extra |-> extra]

IsMarker(sk) == sk.s \in {"Required", "Optional"}
IsCallable(sk) ==
    sk.s \in {"Required", "Optional", "Any", "All", "Coerce", "ExactSequence"}

\* The Python object a schema key is: a literal key is the value itself, any
\* other key (a marker, a type, Extra) is the object that stands in the schema.
KeyObject(sk) == IF sk.s = "lit" THEN sk.val ELSE sk

---------------------------------------------------------------------------
(* Conversions used by Coerce: int(v) and str(v) *)

IntOfStr == [x \in {"0", "1", "2"} |-> CASE x = "0" -> 0 [] x = "1" -> 1 [] x = "2" -> 2]
StrOfInt == [n \in {0, 1, 2} |-> CASE n = 0 -> "0" [] n = 1 -> "1" [] n = 2 -> "2"]

\* Construct with str(v) of a string spelling the string, quotes and all, as
\* repr(v) does.
Construct_StrAsRepr(name, x) ==
    CASE name = "int" /\ x.t = "int" -> Ok(x)
      [] name = "int" /\ x.t = "bool" -> Ok(PyInt(x.v))
      [] name = "str" /\ x.t = "bool" -> Ok(PyStr(IF x.v = 1 THEN "True" ELSE "False"))
      [] name = "int" /\ x.t = "str" /\ x.v \in DOMAIN IntOfStr -> Ok(PyInt(IntOfStr[x.v]))
      [] name = "str" /\ x.t = "int" /\ x.v \in DOMAIN StrOfInt -> Ok(PyStr(StrOfInt[x.v]))
      [] name = "str" /\ x.t \in {"str", "dict", "list", "tuple"} -> Ok(PyRepr(x))
      [] OTHER -> RaiseValueError

\* type(v) for type in {int, str}: the converted value, or the ValueError /
\* TypeError the constructor raises.
Construct(name, x) ==
    CASE name = "int" /\ x.t = "int" -> Ok(x)
      [] name = "int" /\ x.t = "bool" -> Ok(PyInt(x.v))
      [] name = "str" /\ x.t = "bool" -> Ok(PyStr(IF x.v = 1 THEN "True" ELSE "False"))
      [] name = "int" /\ x.t = "str" /\ x.v \in DOMAIN IntOfStr -> Ok(PyInt(IntOfStr[x.v]))
      [] name = "str" /\ x.t = "str" -> Ok(x)
      [] name = "str" /\ x.t = "int" /\ x.v \in DOMAIN StrOfInt -> Ok(PyStr(StrOfInt[x.v]))
      [] name = "str" /\ x.t \in {"dict", "list", "tuple"} -> Ok(PyRepr(x))
      [] OTHER -> RaiseValueError

---------------------------------------------------------------------------
(* Scalar validators: _compile_scalar *)

validate_instance(sk, path, x) ==
    IF IsInstance(x, sk.name) THEN Ok(x)
    ELSE Raise(Invalid(<<"expected ", sk.name>>, path, NoMsg))

validate_value(sk, path, x) ==
    IF ~PyEq(x, sk.val) THEN Raise(Invalid(<<"not a valid value">>, path, NoMsg))
    ELSE Ok(x)

\* validate_callable re-raising with the callable's own path, path dropped.
validate_callable_RelativePath(called, path) ==
    CASE called.k = "ValueError" ->
            Raise(Invalid(<<"not a valid value">>, path, NoMsg))
      [] IsExc(called) ->
            Raise(Invalid(ExcMsg(called), ExcPath(called), ExcErrorMessage(called)))
      [] OTHER -> called

\* validate_callable, given what schema(data) did.
validate_callable(called, path) ==
    CASE called.k = "ValueError" ->
            Raise(Invalid(<<"not a valid value">>, path, NoMsg))
      [] IsExc(called) ->
            Raise(Invalid(ExcMsg(called), path \o ExcPath(called),
                          ExcErrorMessage(called)))
      [] OTHER -> called

\* Coerce(type, msg).f
Coerce_f(sk, x) ==
    LET r == Construct(sk.type, x)
    IN  IF r.k = "ValueError"
        THEN Raise(Invalid(IF sk.msg # NoMsg THEN sk.msg
                           ELSE <<"expected ", sk.type>>, <<>>, NoMsg))
        ELSE r

---------------------------------------------------------------------------
(* The order in which a Python set of schema keys is iterated is not fixed *)
(* by the language: the required keys are visited in the order of the      *)
(* schema's items or in the reverse order, as hash_order says.             *)

Reverse(seq) == [i \in 1..Len(seq) |-> seq[Len(seq) + 1 - i]]

RECURSIVE Filter(_, _)
Filter(seq, keep) ==
    IF seq = <<>> THEN <<>>
    ELSE IF Head(seq) \in keep THEN <<Head(seq)>> \o Filter(Tail(seq), keep)
    ELSE Filter(Tail(seq), keep)

SetOrder(items, keys, order) ==
    LET inOrder == Filter([i \in 1..Len(items) |-> items[i].key], keys)
    IN  IF order = "reverse" THEN Reverse(inOrder) ELSE inOrder

---------------------------------------------------------------------------
(* Schema._compile and the validators it builds.  Validate(self, sk, path, *)
(* x, order) is self._compile(sk)(path, x) for the Schema object self.     *)

RECURSIVE Validate(_, _, _, _, _)
RECURSIVE Schema__call__(_, _, _)
RECURSIVE candidates(_, _, _, _, _, _, _, _, _)
RECURSIVE pairs(_, _, _, _, _, _, _, _)
RECURSIVE elements(_, _, _, _, _, _, _, _)
RECURSIVE alternatives(_, _, _, _, _, _, _)
RECURSIVE Any_loop(_, _, _, _, _)
RECURSIVE All_loop(_, _, _, _)
RECURSIVE zip(_, _, _, _, _)

\* Schema._compile_mapping: default_required_keys
default_required_keys(self, items) ==
    {items[i].key : i \in {j \in 1..Len(items) :
        \/ (self.required /\ items[j].key.s # "Optional")
        \/ items[j].key.s = "Required"}}

\* The loop state of validate_mapping: out, errors, required_keys and error,
\* in raised the exception that left the loop, if one did, and in evals the
\* number of calls ckey(key_path, key) the loop has made.
MappingState(out, required_keys) ==
    [out |-> out, errors |-> <<>>, required_keys |-> required_keys,
     error |-> None, raised |-> None, evals |-> 0]

\* validate_mapping: err.msg + invalid_msg is a TypeError when err.msg is None,
\* the message of an Invalid raised without one.
unsupported_operand(exception_errors, key_path) ==
    \E n \in 1..Len(exception_errors) :
        /\ Len(exception_errors[n].path) <= Len(key_path)
        /\ exception_errors[n].msg = NoMsg

\* validate_mapping: the errors of a failed value, as appended to errors.
value_errors(exception_errors, key_path, invalid_msg) ==
    [n \in 1..Len(exception_errors) |->
        LET err == exception_errors[n]
        IN  IF Len(err.path) > Len(key_path) THEN err
            ELSE Invalid(err.msg \o invalid_msg, err.path, err.msg)]

\* validate_mapping: the else of the candidate loop, no candidate took the key.
no_candidate(self, key_path, key, value, st) ==
    IF self.extra THEN [st EXCEPT !.out = DictSet(@, key, value)]
    ELSE [st EXCEPT !.errors =
             Append(@, Invalid(<<"extra keys not allowed">>, key_path, NoMsg))]

\* candidates going on to the next candidate after a value failure (continue
\* for break): a later candidate that takes key and value writes the output.
RECURSIVE candidates_Backtrack(_, _, _, _, _, _, _, _, _)
candidates_Backtrack(self, items, invalid_msg, key_path, key, value, j, st, order) ==
    IF j > Len(items) THEN no_candidate(self, key_path, key, value, st)
    ELSE LET skey == items[j].key
             new_key == Validate(self, skey, key_path, key, order)
             called == [st EXCEPT !.evals = @ + 1]
         IN  IF IsTypeError(new_key) THEN [called EXCEPT !.raised = new_key]
             ELSE IF IsExc(new_key)
             THEN IF Len(ExcPath(new_key)) > Len(key_path)
                  THEN [called EXCEPT !.raised = new_key]
                  ELSE candidates_Backtrack(self, items, invalid_msg, key_path, key,
                          value, j + 1,
                          [called EXCEPT !.error =
                              IF st.error = None
                                 \/ Len(ExcPath(new_key)) > Len(ExcPath(st.error))
                              THEN new_key ELSE @], order)
             ELSE LET r == Validate(self, items[j].value, key_path, value, order)
                  IN  IF IsTypeError(r) THEN [called EXCEPT !.raised = r]
                      ELSE IF IsExc(r) /\ unsupported_operand(r.errors, key_path)
                      THEN [called EXCEPT !.raised = RaiseTypeError]
                      ELSE IF IsExc(r)
                      THEN candidates_Backtrack(self, items, invalid_msg, key_path, key,
                              value, j + 1,
                              [called EXCEPT !.errors =
                                  @ \o value_errors(r.errors, key_path, invalid_msg)],
                              order)
                      ELSE [called EXCEPT !.out = DictSet(@, new_key.v, r.v),
                                          !.required_keys = @ \ {skey}]

\* validate_mapping: the candidates of one (key, value), from candidate j on.
candidates(self, items, invalid_msg, key_path, key, value, j, st, order) ==
    IF j > Len(items) THEN no_candidate(self, key_path, key, value, st)
    ELSE LET skey == items[j].key
             new_key == Validate(self, skey, key_path, key, order)
             called == [st EXCEPT !.evals = @ + 1]
         IN  IF IsTypeError(new_key) THEN [called EXCEPT !.raised = new_key]
             ELSE IF IsExc(new_key)
             THEN IF Len(ExcPath(new_key)) > Len(key_path)
                  THEN [called EXCEPT !.raised = new_key]
                  ELSE candidates(self, items, invalid_msg, key_path, key, value, j + 1,
                          [called EXCEPT !.error =
                              IF st.error = None
                                 \/ Len(ExcPath(new_key)) > Len(ExcPath(st.error))
                              THEN new_key ELSE @], order)
             ELSE LET r == Validate(self, items[j].value, key_path, value, order)
                  IN  IF IsTypeError(r) THEN [called EXCEPT !.raised = r]
                      ELSE IF IsExc(r) /\ unsupported_operand(r.errors, key_path)
                      THEN [called EXCEPT !.raised = RaiseTypeError]
                      ELSE IF IsExc(r)
                      THEN [called EXCEPT !.errors =
                               @ \o value_errors(r.errors, key_path, invalid_msg)]
                      ELSE [called EXCEPT !.out = DictSet(@, new_key.v, r.v),
                                          !.required_keys = @ \ {skey}]

\* pairs going through the input from its last pair to its first.
RECURSIVE pairs_LastFirst(_, _, _, _, _, _, _, _)
pairs_LastFirst(self, items, invalid_msg, path, iterable, i, st, order) ==
    IF st.raised # None \/ i > Len(iterable) THEN st
    ELSE LET pair == iterable[Len(iterable) + 1 - i]
         IN  pairs_LastFirst(self, items, invalid_msg, path, iterable, i + 1,
                candidates(self, items, invalid_msg, path \o <<pair.key>>,
                           pair.key, pair.value, 1, st, order), order)

\* validate_mapping: the loop over the input's (key, value) pairs, from pair i on.
pairs(self, items, invalid_msg, path, iterable, i, st, order) ==
    IF st.raised # None \/ i > Len(iterable) THEN st
    ELSE pairs(self, items, invalid_msg, path, iterable, i + 1,
               candidates(self, items, invalid_msg, path \o <<iterable[i].key>>,
                          iterable[i].key, iterable[i].value, 1, st, order), order)

\* required_key storing the default under the marker, not under key.schema.
required_key_KeyedByMarker(path, key, st) ==
    LET default == IF key.s = "Required" THEN key.default ELSE UNDEFINED
        msg == IF IsMarker(key) /\ key.msg # NoMsg THEN key.msg
               ELSE <<"required key not provided">>
    IN  IF default # UNDEFINED
        THEN [st EXCEPT !.out = DictSet(@, KeyObject(key), default)]
        ELSE [st EXCEPT !.errors =
                 Append(@, Invalid(msg, path \o <<KeyObject(key)>>, NoMsg))]

\* required_key passing the default through the validator of the key's value,
\* as it does the value of a pair: the result is stored, the errors are kept.
required_key_Validated(path, key, st) ==
    LET default == IF key.s = "Required" THEN key.default ELSE UNDEFINED
        msg == IF IsMarker(key) /\ key.msg # NoMsg THEN key.msg
               ELSE <<"required key not provided">>
        items == IF schema.schema.s = "dict" THEN schema.schema.items ELSE <<>>
        own == {j \in 1..Len(items) : items[j].key = key}
        r == IF own = {} THEN Ok(default)
             ELSE Validate(schema, items[CHOOSE j \in own : TRUE].value,
                           path \o <<KeyObject(key.schema)>>, default, hash_order)
    IN  IF default # UNDEFINED
        THEN IF r.k = "ok"
             THEN [st EXCEPT !.out = DictSet(@, KeyObject(key.schema), r.v)]
             ELSE [st EXCEPT !.errors = @ \o r.errors]
        ELSE [st EXCEPT !.errors =
                 Append(@, Invalid(msg, path \o <<KeyObject(key)>>, NoMsg))]

\* validate_mapping: one required key that no pair discarded.
required_key(path, key, st) ==
    LET default == IF key.s = "Required" THEN key.default ELSE UNDEFINED
        msg == IF IsMarker(key) /\ key.msg # NoMsg THEN key.msg
               ELSE <<"required key not provided">>
    IN  IF default # UNDEFINED
        THEN [st EXCEPT !.out = DictSet(@, KeyObject(key.schema), default)]
        ELSE [st EXCEPT !.errors =
                 Append(@, Invalid(msg, path \o <<KeyObject(key)>>, NoMsg))]

\* validate_mapping: the pass over the required keys left, in iteration order.
RECURSIVE required_pass(_, _, _)
required_pass(path, keys, st) ==
    IF keys = <<>> THEN st
    ELSE required_pass(path, Tail(keys), required_key(path, Head(keys), st))

validate_mapping(self, items, invalid_msg, path, iterable, out, order) ==
    LET looped == pairs(self, items, invalid_msg, path, iterable, 1,
                        MappingState(out, default_required_keys(self, items)), order)
        st == required_pass(path, SetOrder(items, looped.required_keys, order), looped)
    IN  IF looped.raised # None THEN looped.raised
        ELSE IF st.errors # <<>> THEN RaiseMultiple(st.errors)
        ELSE Ok(st.out)

\* The calls ckey(key_path, key) that validate_mapping makes when a dict
\* schema is called on a dict: one call of a key validator each, which a
\* Marker subclass counting its __call__ observes.
key_evaluations(self, sk, x, order) ==
    IF sk.s = "dict" /\ IsInstance(x, "dict")
    THEN pairs(self, sk.items, <<" for dictionary value">>, <<>>, x.v, 1,
               MappingState(<<>>, default_required_keys(self, sk.items)), order).evals
    ELSE 0

\* Schema._compile_dict
validate_dict(self, sk, path, x, order) ==
    IF ~IsInstance(x, "dict") THEN Raise(Invalid(<<"expected a dictionary">>, path, NoMsg))
    ELSE LET r == validate_mapping(self, sk.items, <<" for dictionary value">>,
                                   path, x.v, <<>>, order)
         IN  IF r.k = "ok" THEN Ok(PyDict(r.v)) ELSE r

\* validate_sequence: the alternatives of one element, from alternative j on.
\* The answer is what append took (k = "ok"), the exception that leaves the
\* validator (k = "raise"), or, when every alternative failed, the last
\* failure (k = "else").
alternatives(self, alts, index_path, value, j, invalid, order) ==
    IF j > Len(alts) THEN [k |-> "else", v |-> invalid]
    ELSE LET r == Validate(self, alts[j], index_path, value, order)
         IN  IF IsTypeError(r) THEN [k |-> "raise", v |-> r]
             ELSE IF ~IsExc(r) THEN [k |-> "ok", v |-> r.v]
             ELSE IF Len(ExcPath(r)) > Len(index_path) THEN [k |-> "raise", v |-> r]
             ELSE alternatives(self, alts, index_path, value, j + 1, r, order)

\* validate_sequence: the loop over the elements, from element i on (i counts
\* from 1, the index recorded in the path from 0).
elements(self, alts, seq_type_name, path, elems, i, st, order) ==
    IF st.raised # None \/ i > Len(elems) THEN st
    ELSE LET index_path == path \o <<PyInt(i - 1)>>
             a == alternatives(self, alts, index_path, elems[i], 1, None, order)
         IN  elements(self, alts, seq_type_name, path, elems, i + 1,
                CASE a.k = "ok" -> [st EXCEPT !.out = Append(@, a.v)]
                  [] a.k = "raise" -> [st EXCEPT !.raised = a.v]
                  [] OTHER ->
                     [st EXCEPT !.errors = Append(@,
                        IF Len(ExcPath(a.v)) <= Len(index_path)
                        THEN Invalid(<<"invalid ", seq_type_name, " value">>,
                                     index_path, NoMsg)
                        ELSE a.v.errors[1])],
                order)

\* validate_sequence without the return for an empty schema: the loop runs,
\* no alternative takes any element, and every element is reported.
validate_sequence_NoEmptyCase(self, sk, seq_type_name, path, x, order) ==
    IF ~IsInstance(x, seq_type_name)
    THEN Raise(Invalid(<<"expected a ", seq_type_name>>, path, NoMsg))
    ELSE IF x.v = <<>> THEN Ok(x)
    ELSE IF sk.alts = <<>>
    THEN RaiseMultiple([i \in 1..Len(x.v) |->
                           Invalid(<<"invalid ", seq_type_name, " value">>,
                                   path \o <<PyInt(i - 1)>>, NoMsg)])
    ELSE LET st == elements(self, sk.alts, seq_type_name, path, x.v, 1,
                            [out |-> <<>>, errors |-> <<>>, raised |-> None], order)
         IN  IF st.raised # None THEN st.raised
             ELSE IF st.errors # <<>> THEN RaiseMultiple(st.errors)
             ELSE Ok([t |-> x.t, v |-> st.out])

\* Schema._compile_sequence
validate_sequence(self, sk, seq_type_name, path, x, order) ==
    IF ~IsInstance(x, seq_type_name)
    THEN Raise(Invalid(<<"expected a ", seq_type_name>>, path, NoMsg))
    ELSE IF sk.alts = <<>> THEN Ok(x)
    ELSE LET st == elements(self, sk.alts, seq_type_name, path, x.v, 1,
                            [out |-> <<>>, errors |-> <<>>, raised |-> None], order)
         IN  IF st.raised # None THEN st.raised
             ELSE IF st.errors # <<>> THEN RaiseMultiple(st.errors)
             ELSE Ok([t |-> x.t, v |-> st.out])

\* Any_loop keeping the later of two errors of equal depth (>= for >).
RECURSIVE Any_loop_LastAmongDeepest(_, _, _, _, _)
Any_loop_LastAmongDeepest(sk, x, j, error, order) ==
    IF j > Len(sk.validators)
    THEN IF error # None THEN error
         ELSE Raise(Invalid(IF sk.msg # NoMsg THEN sk.msg
                            ELSE <<"no valid value found">>, <<>>, NoMsg))
    ELSE LET e == Schema__call__(Schema(sk.validators[j], sk.required, sk.extra),
                                 x, order)
         IN  IF ~IsExc(e) THEN e
             ELSE Any_loop_LastAmongDeepest(sk, x, j + 1,
                     IF error = None \/ Len(ExcPath(e)) >= Len(ExcPath(error))
                     THEN e ELSE error, order)

\* Any(*validators, **kwargs).f, from validator j on
Any_loop(sk, x, j, error, order) ==
    IF j > Len(sk.validators)
    THEN IF error # None THEN error
         ELSE Raise(Invalid(IF sk.msg # NoMsg THEN sk.msg
                            ELSE <<"no valid value found">>, <<>>, NoMsg))
    ELSE LET e == Schema__call__(Schema(sk.validators[j], sk.required, sk.extra),
                                 x, order)
         IN  IF ~IsExc(e) THEN e
             ELSE Any_loop(sk, x, j + 1,
                     IF error = None \/ Len(ExcPath(e)) > Len(ExcPath(error))
                     THEN e ELSE error, order)

\* All_loop giving every validator the value All was called on (schema(v)
\* without v = ...), the last output being returned.
RECURSIVE All_loop_NoPiping(_, _, _, _)
All_loop_NoPiping(sk, x, j, order) ==
    IF j > Len(sk.validators) THEN Ok(x)
    ELSE LET e == Schema__call__(Schema(sk.validators[j], sk.required, sk.extra),
                                 x, order)
         IN  IF IsTypeError(e) THEN e
             ELSE IF IsExc(e)
             THEN IF sk.msg = NoMsg THEN e ELSE Raise(Invalid(sk.msg, <<>>, NoMsg))
             ELSE IF j = Len(sk.validators) THEN e
             ELSE All_loop_NoPiping(sk, x, j + 1, order)

\* All(*validators, **kwargs).f, from validator j on
All_loop(sk, x, j, order) ==
    IF j > Len(sk.validators) THEN Ok(x)
    ELSE LET e == Schema__call__(Schema(sk.validators[j], sk.required, sk.extra),
                                 x, order)
         IN  IF IsTypeError(e) THEN e
             ELSE IF IsExc(e)
             THEN IF sk.msg = NoMsg THEN e ELSE Raise(Invalid(sk.msg, <<>>, NoMsg))
             ELSE All_loop(sk, e.v, j + 1, order)

\* ExactSequence.__call__: schema(x) for x, schema in zip(v, self._schemas),
\* from pair i on; zip stops at the shorter of the two.
zip(sk, elems, i, out, order) ==
    IF i > Len(elems) \/ i > Len(sk.validators) THEN Ok(out)
    ELSE LET r == Schema__call__(Schema(sk.validators[i], FALSE, FALSE),
                                 elems[i], order)
         IN  IF IsTypeError(r) THEN r
             ELSE IF IsExc(r)
             THEN IF sk.msg = NoMsg THEN r
                  ELSE Raise(Invalid(sk.msg, <<>>, NoMsg))
             ELSE zip(sk, elems, i + 1, Append(out, r.v), order)

\* ExactSequence.__call__
ExactSequence__call__(sk, x, order) ==
    IF x.t \notin {"list", "tuple"} THEN Raise(Invalid(sk.msg, <<>>, NoMsg))
    ELSE LET r == zip(sk, x.v, 1, <<>>, order)
         IN  IF r.k # "ok" THEN r ELSE Ok([t |-> x.t, v |-> r.v])

\* Marker.__call__
Marker__call__(sk, x, order) ==
    LET e == Schema__call__(Schema(sk.schema, FALSE, FALSE), x, order)
    IN  IF IsExc(e)
        THEN IF sk.msg = NoMsg \/ Len(ExcPath(e)) > 1 THEN e
             ELSE Raise(Invalid(sk.msg, <<>>, NoMsg))
        ELSE e

\* schema(data) for a callable schema node
Called(sk, x, order) ==
    CASE sk.s = "Any" -> Any_loop(sk, x, 1, None, order)
      [] sk.s = "All" -> All_loop(sk, x, 1, order)
      [] sk.s = "Coerce" -> Coerce_f(sk, x)
      [] sk.s = "ExactSequence" -> ExactSequence__call__(sk, x, order)
      [] OTHER -> Marker__call__(sk, x, order)

\* Schema._compile(sk)(path, x) and _compile_scalar(sk)(path, x)
Validate(self, sk, path, x, order) ==
    CASE sk.s = "Extra" -> Ok(x)
      [] sk.s = "dict" -> validate_dict(self, sk, path, x, order)
      [] sk.s = "list" -> validate_sequence(self, sk, "list", path, x, order)
      [] sk.s = "tuple" -> validate_sequence(self, sk, "tuple", path, x, order)
      [] sk.s = "type" -> validate_instance(sk, path, x)
      [] IsCallable(sk) -> validate_callable(Called(sk, x, order), path)
      [] OTHER -> validate_value(sk, path, x)

\* SchemaCallWrap letting a plain Invalid through unwrapped.
SchemaCallWrap_NoWrap(compiled) == compiled

\* Schema.__call__, given what self._compiled([], data) did
SchemaCallWrap(compiled) ==
    CASE compiled.k = "MultipleInvalid" -> compiled
      [] compiled.k = "Invalid" -> RaiseMultiple(compiled.errors)
      [] OTHER -> compiled

Schema__call__(self, x, order) ==
    SchemaCallWrap(Validate(self, self.schema, <<>>, x, order))

\* Objects have an identity that the values above leave out.  An object a
\* validator handles is either the caller's data or a container inside it
\* (GivenObject), or one that validation created (BuiltObject).  The operators
\* below follow the same code as Validate and give, for one validator call,
\* stores: the objects that out[...] = ... and out.append(...) stored into,
\* and ret: the object returned (of a call that raised, the object given).
GivenObject == "given"
BuiltObject == "built"

Effect(stores, ret) == [stores |-> stores, ret |-> ret]

\* validate_dict building the output in the dict it was given (out = data).
validate_dict_out_InPlace(data_object) == data_object

\* validate_dict: out = type(data)()
validate_dict_out(data_object) == BuiltObject

RECURSIVE effects(_, _, _, _, _, _)

\* validate_mapping: the stores of the loop from pair i, candidate j on; the
\* keys and values of iterable are objects inside data_object.
RECURSIVE mapping_stores(_, _, _, _, _, _, _, _, _)
mapping_stores(self, items, path, data_object, iterable, i, j, out, order) ==
    IF i > Len(iterable) THEN {}
    ELSE LET key == iterable[i].key
             value == iterable[i].value
             key_path == path \o <<key>>
         IN  IF j > Len(items)
             THEN (IF self.extra THEN {out} ELSE {})
                  \cup mapping_stores(self, items, path, data_object, iterable,
                                      i + 1, 1, out, order)
             ELSE LET new_key == Validate(self, items[j].key, key_path, key, order)
                      ckey == effects(self, items[j].key, key_path, data_object,
                                      key, order).stores
                  IN  IF IsTypeError(new_key) THEN ckey
                      ELSE IF IsExc(new_key)
                      THEN IF Len(ExcPath(new_key)) > Len(key_path) THEN ckey
                           ELSE ckey \cup mapping_stores(self, items, path, data_object,
                                                         iterable, i, j + 1, out, order)
                      ELSE LET r == Validate(self, items[j].value, key_path, value, order)
                               cvalue == effects(self, items[j].value, key_path,
                                                 data_object, value, order).stores
                           IN  IF \/ IsTypeError(r)
                                  \/ IsExc(r) /\ unsupported_operand(r.errors, key_path)
                               THEN ckey \cup cvalue
                               ELSE ckey \cup cvalue
                                    \cup (IF IsExc(r) THEN {} ELSE {out})
                                    \cup mapping_stores(self, items, path, data_object,
                                                        iterable, i + 1, 1, out, order)

\* validate_dict, with the store out[key.schema] = key.default of the pass
\* over the required keys left
dict_effects(self, sk, path, data_object, x, order) ==
    IF ~IsInstance(x, "dict") THEN Effect({}, data_object)
    ELSE LET out == validate_dict_out(data_object)
             looped == pairs(self, sk.items, <<" for dictionary value">>, path, x.v, 1,
                             MappingState(<<>>, default_required_keys(self, sk.items)),
                             order)
             defaults == IF looped.raised = None
                            /\ \E key \in looped.required_keys :
                                  key.s = "Required" /\ key.default # UNDEFINED
                         THEN {out} ELSE {}
         IN  Effect(mapping_stores(self, sk.items, path, data_object, x.v, 1, 1,
                                   out, order) \cup defaults,
                    out)

\* validate_sequence: the stores of the loop from element i, alternative j
\* on; out is the list created by out = [].
RECURSIVE sequence_stores(_, _, _, _, _, _, _, _)
sequence_stores(self, alts, path, data_object, elems, i, j, order) ==
    IF i > Len(elems) THEN {}
    ELSE IF j > Len(alts)
    THEN sequence_stores(self, alts, path, data_object, elems, i + 1, 1, order)
    ELSE LET index_path == path \o <<PyInt(i - 1)>>
             r == Validate(self, alts[j], index_path, elems[i], order)
             validate == effects(self, alts[j], index_path, data_object,
                                 elems[i], order).stores
         IN  IF IsTypeError(r) THEN validate
             ELSE IF ~IsExc(r)
             THEN validate \cup {BuiltObject}
                  \cup sequence_stores(self, alts, path, data_object, elems,
                                       i + 1, 1, order)
             ELSE IF Len(ExcPath(r)) > Len(index_path) THEN validate
             ELSE validate \cup sequence_stores(self, alts, path, data_object, elems,
                                                i, j + 1, order)

\* validate_sequence: an empty schema returns data itself, any other the
\* new type(data)(out)
sequence_effects(self, sk, seq_type_name, path, data_object, x, order) ==
    IF ~IsInstance(x, seq_type_name) \/ sk.alts = <<>> THEN Effect({}, data_object)
    ELSE Effect(sequence_stores(self, sk.alts, path, data_object, x.v, 1, 1, order),
                BuiltObject)

\* Any.f from validator j on: each validator is given v, the first that
\* accepts it returns.
RECURSIVE Any_effects(_, _, _, _, _, _)
Any_effects(sk, data_object, x, j, stores, order) ==
    IF j > Len(sk.validators) THEN Effect(stores, data_object)
    ELSE LET inner == Schema(sk.validators[j], sk.required, sk.extra)
             e == Schema__call__(inner, x, order)
             f == effects(inner, inner.schema, <<>>, data_object, x, order)
         IN  IF ~IsExc(e) THEN Effect(stores \cup f.stores, f.ret)
             ELSE Any_effects(sk, data_object, x, j + 1, stores \cup f.stores, order)

\* All.f from validator j on: each validator is given what the one before
\* returned.
RECURSIVE All_effects(_, _, _, _, _, _)
All_effects(sk, data_object, x, j, stores, order) ==
    IF j > Len(sk.validators) THEN Effect(stores, data_object)
    ELSE LET inner == Schema(sk.validators[j], sk.required, sk.extra)
             e == Schema__call__(inner, x, order)
             f == effects(inner, inner.schema, <<>>, data_object, x, order)
         IN  IF e.k # "ok" THEN Effect(stores \cup f.stores, data_object)
             ELSE All_effects(sk, f.ret, e.v, j + 1, stores \cup f.stores, order)

\* ExactSequence.__call__: the validators zip pairs with an element, up to
\* the first that raises; the result is a new type(v)(...).
RECURSIVE ExactSequence_effects(_, _, _, _, _, _)
ExactSequence_effects(sk, data_object, elems, i, stores, order) ==
    IF i > Len(elems) \/ i > Len(sk.validators) THEN Effect(stores, BuiltObject)
    ELSE LET inner == Schema(sk.validators[i], FALSE, FALSE)
             r == Schema__call__(inner, elems[i], order)
             f == effects(inner, inner.schema, <<>>, data_object, elems[i], order)
         IN  IF r.k # "ok" THEN Effect(stores \cup f.stores, data_object)
             ELSE ExactSequence_effects(sk, data_object, elems, i + 1,
                                        stores \cup f.stores, order)

\* Schema._compile(sk)(path, x), x being data_object
effects(self, sk, path, data_object, x, order) ==
    CASE sk.s = "dict" -> dict_effects(self, sk, path, data_object, x, order)
      [] sk.s = "list" -> sequence_effects(self, sk, "list", path, data_object, x, order)
      [] sk.s = "tuple" -> sequence_effects(self, sk, "tuple", path, data_object, x, order)
      [] sk.s = "Any" -> Any_effects(sk, data_object, x, 1, {}, order)
      [] sk.s = "All" -> All_effects(sk, data_object, x, 1, {}, order)
      [] sk.s = "Coerce" -> Effect({}, BuiltObject)
      [] sk.s = "ExactSequence" ->
            IF x.t \notin {"list", "tuple"} THEN Effect({}, data_object)
            ELSE ExactSequence_effects(sk, data_object, x.v, 1, {}, order)
      [] IsMarker(sk) -> effects(Schema(sk.schema, FALSE, FALSE), sk.schema, <<>>,
                                 data_object, x, order)
      [] OTHER -> Effect({}, data_object)

\* Schema._compile: whether the node compiles, or raises SchemaError
\* ('unsupported schema data type').  Types and the callables compile as
\* scalars; a literal compiles when its type is one _compile lists.
ScalarTypes == {"int", "long", "str", "unicode", "float", "complex", "object",
                "list", "dict", "NoneType"}

RECURSIVE _compile(_)
_compile(sk) ==
    CASE sk.s = "Extra" -> TRUE
      [] sk.s = "dict" ->
            \A i \in 1..Len(sk.items) :
                _compile(sk.items[i].key) /\ _compile(sk.items[i].value)
      [] sk.s \in {"list", "tuple"} -> \A i \in 1..Len(sk.alts) : _compile(sk.alts[i])
      [] sk.s = "lit" -> sk.val.t \in ScalarTypes
      [] OTHER -> TRUE

---------------------------------------------------------------------------
(* The inputs: every value of at most MaxSize nodes (a scalar or a         *)
(* container counts one, plus the nodes of its elements) over the scalars  *)
(* Leaves and the dictionary keys Keys.                                    *)

MaxSize == 4

Leaves == {PyInt(1), PyStr("x")}
Keys == {PyStr("a"), PyStr("b")}

\* By exact size n: vals, the values; seqs, the element sequences; dicts, the
\* sequences of pairs with distinct keys.
Universe[n \in 0..MaxSize] ==
    IF n = 0 THEN [vals |-> {}, seqs |-> {<<>>}, dicts |-> {<<>>}]
    ELSE LET vals == (IF n = 1 THEN Leaves ELSE {})
                     \cup {PyDict(p) : p \in Universe[n - 1].dicts}
                     \cup {PyList(q) : q \in Universe[n - 1].seqs}
             valsOf(m) == IF m = n THEN vals ELSE Universe[m].vals
             seqs == UNION {{<<x>> \o rest : x \in valsOf(m),
                                             rest \in Universe[n - m].seqs} :
                            m \in 1..n}
             dicts == UNION {{<<Pair(kx[1], kx[2])>> \o rest :
                                 kx \in Keys \X valsOf(m),
                                 rest \in Universe[n - m].dicts} : m \in 1..n}
         IN  [vals |-> vals, seqs |-> seqs,
              dicts |-> {p \in dicts : Cardinality(DictKeys(p)) = Len(p)}]

\* Dicts of one or two pairs with a tuple among their keys.
TupleKeys == {PyTuple(<<PyInt(1)>>), PyTuple(<<PyStr("x")>>)}
TupleKeyed ==
    LET ps == {Pair(k, x) : k \in TupleKeys \cup {PyStr("b")}, x \in Leaves}
    IN  {PyDict(<<p>>) : p \in {p \in ps : p.key \in TupleKeys}}
        \cup {PyDict(<<pq[1], pq[2]>>) :
                 pq \in {pq \in ps \X ps :
                            /\ pq[1].key # pq[2].key
                            /\ {pq[1].key, pq[2].key} \cap TupleKeys # {}}}

\* The scalars that bool and the literal True tell apart, and a few tuples.
Scalars == {PyBool(TRUE), PyBool(FALSE), PyInt(0), PyStr("")}
\* Strings that spell an integer, alone, in a list and as dict values and key.
Numerals ==
    {PyStr("1"), PyList(<<PyStr("1")>>), PyDict(<<Pair(PyStr("a"), PyStr("1"))>>),
     PyDict(<<Pair(PyStr("a"), PyStr("1")), Pair(PyStr("b"), PyStr("1"))>>),
     PyDict(<<Pair(PyStr("1"), PyInt(1))>>), PyDict(<<Pair(PyInt(1), PyInt(1))>>)}
Tuples == {PyTuple(<<>>), PyTuple(<<PyInt(1)>>), PyTuple(<<PyInt(1), PyStr("x")>>)}

Values ==
    UNION {Universe[n].vals : n \in 1..MaxSize}
    \cup TupleKeyed \cup Scalars \cup Tuples \cup Numerals

---------------------------------------------------------------------------
(* The schemas *)

int == Type("int")
str == Type("str")
object == Type("object")
bool == Type("bool")
a == Lit(PyStr("a"))
b == Lit(PyStr("b"))
one == Lit(PyInt(1))

D1(k1, v1) == DictSchema(<<Item(k1, v1)>>)
D2(k1, v1, k2, v2) == DictSchema(<<Item(k1, v1), Item(k2, v2)>>)
Req(k) == Required(k, NoMsg, UNDEFINED)
AnyOf(validators) == Any(validators, NoMsg, FALSE, FALSE)
AllOf(validators) == All(validators, NoMsg, FALSE, FALSE)

\* schema trees compiled with the default flags
Trees ==
    { int, one, DictSchema(<<>>),
      bool, Lit(PyBool(TRUE)),
      ListSchema(<<>>), TupleSchema(<<>>), D1(a, ListSchema(<<>>)),
      Coerce("int", NoMsg), Coerce("str", NoMsg), D1(a, Coerce("int", NoMsg)),
      ListSchema(<<Coerce("int", NoMsg)>>), D1(Coerce("str", NoMsg), int),
      D1(Coerce("int", <<"expecting a number">>), str),
      All(<<str, Coerce("int", NoMsg)>>, <<"bad">>, FALSE, FALSE),
      Any(<<one, str>>, <<"Expected 1 or str">>, FALSE, FALSE),
      Any(<<>>, <<"nothing">>, FALSE, FALSE),
      AllOf(<<str, Coerce("int", NoMsg)>>), AllOf(<<Coerce("int", NoMsg), int>>),
      AnyOf(<<D2(a, Coerce("str", NoMsg), b, int),
              D2(a, Coerce("int", NoMsg), b, Coerce("int", NoMsg))>>),
      D2(int, str, Coerce("int", NoMsg), int),
      D2(str, str, Required(a, NoMsg, PyInt(1)), int),
      ExactSequence(<<int, int>>, NoMsg), ExactSequence(<<int, str>>, NoMsg),
      ExactSequence(<<int>>, <<"one int">>), D1(a, ExactSequence(<<int, int>>, NoMsg)),
      D1(a, int), D2(a, int, b, int), D2(a, int, b, str),
      D1(Req(a), int), D1(Required(a, <<"need a">>, UNDEFINED), int),
      D1(Required(a, NoMsg, PyInt(1)), int), D1(Required(a, NoMsg, PyStr("x")), int),
      D2(Required(a, NoMsg, PyInt(1)), int, b, int),
      D2(Req(a), int, Req(b), int), D2(Optional(a, NoMsg), int, Req(b), int),
      D2(a, str, Extra, object), D2(Extra, object, a, str),
      D2(Req(a), str, Extra, object), D2(Extra, object, Req(a), str),
      D2(a, int, str, str), D2(str, str, a, int),
      D1(TupleSchema(<<int>>), int), D2(TupleSchema(<<int>>), int, b, int),
      D2(b, int, TupleSchema(<<int>>), int),
      D1(a, D1(b, int)), D1(a, D2(a, int, b, int)), D1(a, D1(Req(b), int)),
      D1(a, ListSchema(<<int>>)), D1(a, ListSchema(<<D1(b, int)>>)),
      ListSchema(<<int>>), ListSchema(<<one, str>>), ListSchema(<<D1(a, int)>>),
      ListSchema(<<ListSchema(<<int>>)>>),
      ListSchema(<<D1(a, int), D1(a, str)>>), ListSchema(<<D1(a, int), str>>),
      ListSchema(<<str, D1(a, int)>>),
      AnyOf(<<int, D1(a, int)>>), AnyOf(<<D1(a, D1(b, int)), D1(a, int)>>),
      AnyOf(<<D1(a, int), D1(a, D1(b, int))>>),
      AnyOf(<<D1(a, int), D1(b, int)>>),
      D1(a, AnyOf(<<D1(b, int), int>>)), D1(a, AllOf(<<D2(a, int, b, int)>>)),
      AllOf(<<D1(a, int), D1(a, one)>>), ListSchema(<<AllOf(<<D1(a, int)>>)>>) }

Schemas ==
    {Schema(tree, FALSE, FALSE) : tree \in Trees}
    \cup {Schema(DictSchema(<<>>), FALSE, TRUE), Schema(D1(a, int), FALSE, TRUE),
          Schema(D1(a, int), TRUE, FALSE), Schema(D2(a, int, b, int), TRUE, FALSE),
          Schema(D1(a, D1(b, int)), TRUE, TRUE),
          Schema(D1(Extra, object), TRUE, FALSE),
          Schema(D1(a, D1(Extra, object)), TRUE, FALSE)}

---------------------------------------------------------------------------
(* The memo cache of validation_state.py.  A validator function decorated  *)
(* with check_cache is called either with a plain path list, which makes   *)
(* a new ValidationState, or by a running validator with its own state.    *)
(* The validator function itself is left open: once invoked it may call    *)
(* cached validators, and it ends by returning a result or by raising.     *)

VARIABLES caches, hist, frames, calls

cache_vars == <<caches, hist, frames, calls>>

MaxRequests == 4

Threads == {1, 2}
Funcs == {"f", "g"}
DataIds == {1, 2}
Outcomes == {"r1", "r2"}
Absent == [result |-> "absent", call |-> 0]

\* collections.defaultdict(dict), as (validator_func, id(data)) |-> entry; an
\* entry keeps with the result the top-level call that stored it.
defaultdict == [key \in Funcs \X DataIds |-> Absent]

\* What has happened to (validator_func, id(data)) in one cache: the requests
\* and invocations so far, how the first request ended, the requests made
\* after the first one had returned a result, whether an invocation has
\* returned, whether one has raised, and the requests made after one raised.
NoHistory ==
    [key \in Funcs \X DataIds |->
        [requests |-> 0, invocations |-> 0, first |-> "none", late |-> {},
         returned |-> FALSE, raised |-> FALSE, retry |-> {}]]

\* the requests made of the caches of log, all in all
RECURSIVE Requests(_)
Requests(log) ==
    IF log = <<>> THEN 0
    ELSE LET keys == DOMAIN Head(log)
             Sum[K \in SUBSET keys] ==
                 IF K = {} THEN 0
                 ELSE LET key == CHOOSE k \in K : TRUE
                      IN  Head(log)[key].requests + Sum[K \ {key}]
         IN  Sum[keys] + Requests(Tail(log))

\* ValidationState.__init__ finding a cache that a class attribute keeps
\* for all instances.
ValidationState__init___SharedCache(heap) == 1

\* ValidationState.__init__(state=None): self._cache is a new defaultdict,
\* the object after those of heap.
ValidationState__init__(heap) == Len(heap) + 1

\* ValidationState.check_cache never finding data_id in func_cache.
InFuncCache_Never(cache, validator_func, data_id) == FALSE

\* ValidationState.check_cache: data_id in func_cache
InFuncCache(cache, validator_func, data_id) ==
    cache[<<validator_func, data_id>>] # Absent

\* ValidationState.check_cache up to the call of validator_func: thread t asks
\* the cache _cache of heap for (validator_func, data), on behalf of the
\* top-level call `call`.  A miss invokes validator_func, a hit returns.
check_cache(t, heap, log, _cache, call, validator_func, data_id) ==
    LET key == <<validator_func, data_id>>
        h == log[_cache][key]
        hit == InFuncCache(heap[_cache], validator_func, data_id)
        asked == [h EXCEPT
                    !.requests = @ + 1,
                    !.invocations = IF hit THEN @ ELSE @ + 1,
                    !.first = IF @ = "none" THEN "running" ELSE @,
                    !.late = IF h.first \in Outcomes
                             THEN @ \cup {[invoked |-> ~hit,
                                           result |-> heap[_cache][key].result]}
                             ELSE @,
                    !.retry = IF h.raised
                              THEN @ \cup {[invoked |-> ~hit,
                                            returned |-> h.returned]}
                              ELSE @]
    IN  /\ Requests(log) < MaxRequests
        /\ caches' = heap
        /\ hist' = [log EXCEPT ![_cache][key] = asked]
        /\ frames' = IF hit THEN frames
                     ELSE [frames EXCEPT ![t] = Append(@,
                              [validator_func |-> validator_func, data |-> data_id,
                               _cache |-> _cache, call |-> call,
                               first |-> h.first = "none"])]

\* state_wrapper(state, data) with a list for state: a new ValidationState
\* with its own cache, then state.check_cache(validator_func, data)
state_wrapper_list(t, validator_func, data_id) ==
    LET _cache == ValidationState__init__(caches)
        new == _cache > Len(caches)
    IN  /\ calls' = calls + 1
        /\ check_cache(t, IF new THEN Append(caches, defaultdict) ELSE caches,
                       IF new THEN Append(hist, NoHistory) ELSE hist,
                       _cache, calls + 1, validator_func, data_id)

\* state_wrapper(state, data) with a ValidationState: the validator running on
\* top of thread t's stack passes its state on
state_wrapper_state(t, validator_func, data_id) ==
    /\ frames[t] # <<>>
    /\ LET top == frames[t][Len(frames[t])]
       IN  check_cache(t, caches, hist, top._cache, top.call, validator_func, data_id)
    /\ UNCHANGED calls

\* ValidationState.check_cache after validator_func returned:
\* func_cache[data_id] = validator_func(self, data); return func_cache[data_id]
validator_func_returns(t, returned) ==
    /\ frames[t] # <<>>
    /\ LET top == frames[t][Len(frames[t])]
           key == <<top.validator_func, top.data>>
       IN  /\ caches' = [caches EXCEPT ![top._cache][key] =
                            [result |-> returned, call |-> top.call]]
           /\ hist' = [hist EXCEPT ![top._cache][key].first =
                                       IF top.first THEN returned ELSE @,
                                   ![top._cache][key].returned = TRUE]
    /\ frames' = [frames EXCEPT ![t] = SubSeq(@, 1, Len(@) - 1)]
    /\ UNCHANGED calls

\* ValidationState.check_cache catching what validator_func raises and
\* keeping it in func_cache[data_id] like a result.
validator_func_raises_Stored(t) ==
    /\ frames[t] # <<>>
    /\ LET top == frames[t][Len(frames[t])]
           key == <<top.validator_func, top.data>>
       IN  /\ caches' = [caches EXCEPT ![top._cache][key] =
                            [result |-> "raised", call |-> top.call]]
           /\ hist' = [hist EXCEPT ![top._cache][key].first =
                                       IF top.first THEN "raised" ELSE @,
                                   ![top._cache][key].raised = TRUE]
    /\ frames' = [frames EXCEPT ![t] = SubSeq(@, 1, Len(@) - 1)]
    /\ UNCHANGED calls

\* ValidationState.check_cache when validator_func raises: the assignment
\* does not happen and the exception goes to the caller
validator_func_raises(t) ==
    /\ frames[t] # <<>>
    /\ LET top == frames[t][Len(frames[t])]
           key == <<top.validator_func, top.data>>
       IN  hist' = [hist EXCEPT ![top._cache][key].first =
                                   IF top.first THEN "raised" ELSE @,
                               ![top._cache][key].raised = TRUE]
    /\ frames' = [frames EXCEPT ![t] = SubSeq(@, 1, Len(@) - 1)]
    /\ UNCHANGED <<caches, calls>>

CacheInit ==
    /\ caches = <<>>
    /\ hist = <<>>
    /\ frames = [t \in Threads |-> <<>>]
    /\ calls = 0

---------------------------------------------------------------------------
(* The path of a ValidationState.  A ValidationState holds references to   *)
(* two objects, the list _path and the cache _cache; lists is the heap of  *)
(* the list objects, states the ValidationState objects made so far.       *)

VARIABLES states, lists, made

state_vars == <<states, lists, made>>

MaxStates == 4

\* the lists of path segments that are added to a state
Others == {<<>>, <<"a">>, <<"b">>, <<"a", "b">>}

\* ValidationState.__init__(state) keeping the list of the state it is given:
\* self._path = state._path
ValidationState__init___path_Alias(heap, _path) == _path

\* ValidationState.__init__(state): self._path = list(state._path), a new list
\* object, the one after those of heap
ValidationState__init___path(heap, _path) == Len(heap) + 1

\* ValidationState(): state is None, an empty path and a new cache
ValidationState_None ==
    /\ Len(states) < MaxStates
    /\ LET _cache == ValidationState__init__(caches)
       IN  /\ caches' = IF _cache > Len(caches) THEN Append(caches, defaultdict)
                        ELSE caches
           /\ states' = Append(states, [_path |-> Len(lists) + 1, _cache |-> _cache])
    /\ lists' = Append(lists, <<>>)
    /\ made' = Append(made, [from |-> 0, before |-> <<>>, other |-> <<>>])
    /\ UNCHANGED <<hist, frames, calls>>

\* ValidationState.__add__(self, other), other being the segments of a list
\* or of the _path of another ValidationState: result = ValidationState(self),
\* then result._path += other, which extends the list object in place.  made
\* keeps for the result the state it was made from, the path of that state
\* before the addition, and the segments added.
ValidationState__add__(self, other) ==
    LET _path == ValidationState__init___path(lists, states[self]._path)
        copied == IF _path > Len(lists)
                  THEN Append(lists, lists[states[self]._path])
                  ELSE lists
    IN  /\ Len(states) < MaxStates
        /\ lists' = [copied EXCEPT ![_path] = @ \o other]
        /\ states' = Append(states, [_path |-> _path,
                                     _cache |-> states[self]._cache])
        /\ made' = Append(made, [from |-> self,
                                 before |-> lists[states[self]._path],
                                 other |-> other])
        /\ UNCHANGED cache_vars

\* state + [segments]
ValidationState__add__list ==
    \E self \in 1..Len(states), other \in Others :
        ValidationState__add__(self, other)

\* state + other_state
ValidationState__add__state ==
    \E self \in 1..Len(states), other \in 1..Len(states) :
        ValidationState__add__(self, lists[states[other]._path])

StateInit ==
    /\ states = <<>>
    /\ lists = <<>>
    /\ made = <<>>

---------------------------------------------------------------------------
(* The program: a Schema is constructed, which compiles it, and is then    *)
(* called on the data.                                                     *)

NotYet == [k |-> "none"]

Init ==
    /\ schema \in Schemas
    /\ data \in Values
    /\ hash_order \in {"items", "reverse"}
    /\ pc = "new"
    /\ raw = NotYet
    /\ result = NotYet
    /\ again = NotYet
    /\ counter = 0
    /\ effect = NotYet
    /\ CacheInit
    /\ StateInit

\* Schema.__init__
SchemaInit ==
    /\ pc = "new"
    /\ pc' = IF _compile(schema.schema) THEN "compiled" ELSE "SchemaError"
    /\ UNCHANGED <<schema, data, hash_order, raw, result, again, counter, effect>>
    /\ UNCHANGED <<cache_vars, state_vars>>

\* Schema.__call__
SchemaCall ==
    /\ pc = "compiled"
    /\ raw' = Validate(schema, schema.schema, <<>>, data, hash_order)
    /\ result' = SchemaCallWrap(raw')
    /\ counter' = key_evaluations(schema, schema.schema, data, hash_order)
    /\ effect' = effects(schema, schema.schema, <<>>, GivenObject, data, hash_order)
    /\ pc' = "done"
    /\ UNCHANGED <<schema, data, hash_order, again>>
    /\ UNCHANGED <<cache_vars, state_vars>>

\* Schema.__call__ on what the first call returned
SchemaCallAgain ==
    /\ pc = "done" /\ result.k = "ok"
    /\ again' = Schema__call__(schema, result.v, hash_order)
    /\ pc' = "again"
    /\ UNCHANGED <<schema, data, hash_order, raw, result, counter, effect>>
    /\ UNCHANGED <<cache_vars, state_vars>>

Next == SchemaInit \/ SchemaCall \/ SchemaCallAgain

vars == <<schema_vars, cache_vars, state_vars>>

Spec == Init /\ [][Next]_vars

\* The calls of cached validators, of any number of threads: no Schema is
\* involved.
CacheSpecInit ==
    /\ schema = Schema(int, FALSE, FALSE)
    /\ data = PyInt(1)
    /\ hash_order = "items"
    /\ pc = "new"
    /\ raw = NotYet
    /\ result = NotYet
    /\ again = NotYet
    /\ counter = 0
    /\ effect = NotYet
    /\ CacheInit
    /\ StateInit

CacheNext ==
    /\ \/ \E t \in Threads, validator_func \in Funcs, data_id \in DataIds :
              state_wrapper_list(t, validator_func, data_id)
       \/ \E t \in Threads, validator_func \in Funcs, data_id \in DataIds :
              state_wrapper_state(t, validator_func, data_id)
       \/ \E t \in Threads, r \in Outcomes : validator_func_returns(t, r)
       \/ \E t \in Threads : validator_func_raises(t)
    /\ UNCHANGED <<schema_vars, state_vars>>

CacheSpec == CacheSpecInit /\ [][CacheNext]_vars

\* The making of ValidationStates: from nothing, and by addition to a state.
StateNext ==
    /\ \/ ValidationState_None
       \/ ValidationState__add__list
       \/ ValidationState__add__state
    /\ UNCHANGED schema_vars

StateSpec == CacheSpecInit /\ [][StateNext]_vars

---------------------------------------------------------------------------
(* What the properties below speak of *)

Done == pc = "done"

\* a dict schema called on a dict, a non-empty list schema called on a list
DictCall == Done /\ schema.schema.s = "dict" /\ data.t = "dict"
ListCall == Done /\ schema.schema.s = "list" /\ schema.schema.alts # <<>>
                 /\ data.t = "list"

Failed == Done /\ result.k = "MultipleInvalid"
Errors == {result.errors[n] : n \in 1..Len(result.errors)}

SchemaItems == schema.schema.items

\* The candidate that takes an input key: the first item whose key validator
\* accepts it, 0 when none does.
KeyAccepted(j, key) ==
    ~IsExc(Validate(schema, SchemaItems[j].key, <<key>>, key, hash_order))
Candidate(key) ==
    IF \E j \in 1..Len(SchemaItems) : KeyAccepted(j, key)
    THEN CHOOSE j \in 1..Len(SchemaItems) :
            KeyAccepted(j, key) /\ \A h \in 1..(j - 1) : ~KeyAccepted(h, key)
    ELSE 0

\* What the candidate's value validator does with the value of pair i.
ValueOutcome(i) ==
    Validate(schema, SchemaItems[Candidate(data.v[i].key)].value,
             <<data.v[i].key>>, data.v[i].value, hash_order)

ExtraPair(i) == Candidate(data.v[i].key) = 0
BadValuePair(i) == Candidate(data.v[i].key) # 0 /\ IsExc(ValueOutcome(i))

\* The number of errors pair i accounts for.
Contribution(i) ==
    IF ExtraPair(i) THEN (IF schema.extra THEN 0 ELSE 1)
    ELSE IF BadValuePair(i) THEN Len(ValueOutcome(i).errors) ELSE 0

RECURSIVE Contributions(_)
Contributions(i) == IF i = 0 THEN 0 ELSE Contribution(i) + Contributions(i - 1)

\* The required keys without a default that no pair matched with a good value.
LeftRequired ==
    {sk \in default_required_keys(schema, SchemaItems) :
        /\ ~(sk.s = "Required" /\ sk.default # UNDEFINED)
        /\ ~\E i \in 1..Len(data.v) :
              /\ Candidate(data.v[i].key) # 0
              /\ SchemaItems[Candidate(data.v[i].key)].key = sk
              /\ ~IsExc(ValueOutcome(i))}

RequiredMsg(sk) == IF sk.msg # NoMsg THEN sk.msg ELSE <<"required key not provided">>

---------------------------------------------------------------------------
(* C1: a dict schema called on a dict goes through every input pair, also   *)
(* after a pair has failed: each pair with a bad value reports the errors   *)
(* of that value, each key no candidate accepts reports 'extra keys not     *)
(* allowed' when extra keys are forbidden, and the validator raises them    *)
(* all, with the errors of the required-key pass, in one MultipleInvalid.   *)
C1_AllPairErrorsInOneAggregate ==
    DictCall =>
        /\ \A i \in 1..Len(data.v) :
              /\ (ExtraPair(i) /\ ~schema.extra) =>
                    /\ raw.k = "MultipleInvalid"
                    /\ Invalid(<<"extra keys not allowed">>, <<data.v[i].key>>, NoMsg)
                          \in Errors
              /\ BadValuePair(i) =>
                    /\ raw.k = "MultipleInvalid"
                    /\ \A m \in 1..Len(ValueOutcome(i).errors) :
                          \E e \in Errors :
                              /\ e.path = ValueOutcome(i).errors[m].path
                              /\ e.error_message = ValueOutcome(i).errors[m].msg
                                 \/ e = ValueOutcome(i).errors[m]
        /\ raw.k = "MultipleInvalid" =>
              Len(raw.errors) = Contributions(Len(data.v)) + Cardinality(LeftRequired)

(* C2: for a Required key k without default that the input lacks, the       *)
(* aggregate holds exactly one error for k, with the marker's msg or        *)
(* 'required key not provided', at the path [k] whose segment is the        *)
(* wrapped key value.                                                       *)
C2_RequiredErrorAtWrappedKey ==
    DictCall =>
        \A j \in 1..Len(SchemaItems) :
            LET sk == SchemaItems[j].key
            IN  (/\ sk.s = "Required" /\ sk.default = UNDEFINED /\ sk.schema.s = "lit"
                 /\ sk.schema.val \notin DictKeys(data.v))
                => /\ Failed
                   /\ Cardinality({n \in 1..Len(result.errors) :
                         /\ result.errors[n].msg = RequiredMsg(sk)
                         /\ result.errors[n].path = <<sk.schema.val>>}) = 1

(* C3: for Required(k, default=d) and an input that lacks k, no error is    *)
(* recorded for k and a returned output maps the wrapped key k to d.        *)
C3_DefaultSynthesized ==
    DictCall =>
        \A j \in 1..Len(SchemaItems) :
            LET sk == SchemaItems[j].key
            IN  (/\ sk.s = "Required" /\ sk.default # UNDEFINED /\ sk.schema.s = "lit"
                 /\ sk.schema.val \notin DictKeys(data.v))
                => /\ result.k = "ok" =>
                        /\ sk.schema.val \in DictKeys(result.v.v)
                        /\ DictValue(result.v.v, sk.schema.val) = sk.default
                        /\ sk \notin DictKeys(result.v.v)
                   /\ Failed =>
                        \A e \in Errors : e.path \notin {<<sk.schema.val>>, <<sk>>}

\* The default is synthesized beside a pair taken from the input.
C3_Witness ==
    /\ DictCall /\ result.k = "ok" /\ Len(data.v) = 1
    /\ \E j \in 1..Len(SchemaItems) :
          /\ SchemaItems[j].key.s = "Required"
          /\ SchemaItems[j].key.default # UNDEFINED
          /\ SchemaItems[j].key.schema.val \notin DictKeys(data.v)
          /\ DictValue(result.v.v, SchemaItems[j].key.schema.val)
                = SchemaItems[j].key.default

(* C4: when the key of a Required item is in the input and its value fails  *)
(* the value validator, the aggregate holds the value's error at [key] and  *)
(* no 'required key not provided' error for that key.                       *)
C4_NoRequiredErrorForPresentKey ==
    DictCall =>
        \A i \in 1..Len(data.v) :
            LET j == Candidate(data.v[i].key)
            IN  (/\ BadValuePair(i)
                 /\ SchemaItems[j].key.s = "Required"
                 /\ SchemaItems[j].key.default = UNDEFINED)
                => /\ Failed
                   /\ \A e \in Errors :
                         ~(/\ e.msg = RequiredMsg(SchemaItems[j].key)
                           /\ e.path \in {<<data.v[i].key>>, <<SchemaItems[j].key>>})

(* C5: an input key that no candidate accepts is reported as 'extra keys    *)
(* not allowed' at [key] when extra keys are forbidden; when they are       *)
(* allowed no error is recorded for it and a returned output holds the      *)
(* pair, key and value unchanged.                                           *)
C5_ExtraKeyPolicy ==
    DictCall =>
        \A i \in 1..Len(data.v) :
            ExtraPair(i) =>
                IF schema.extra
                THEN /\ Failed => \A e \in Errors : e.path # <<data.v[i].key>>
                     /\ result.k = "ok" =>
                           /\ data.v[i].key \in DictKeys(result.v.v)
                           /\ DictValue(result.v.v, data.v[i].key) = data.v[i].value
                ELSE /\ Failed
                     /\ Cardinality({n \in 1..Len(result.errors) :
                           result.errors[n] = Invalid(<<"extra keys not allowed">>,
                                                      <<data.v[i].key>>, NoMsg)}) = 1

(* C6: an input key equal to a literal schema key is matched by that key's  *)
(* candidate before Extra and before pattern keys, whatever the order of    *)
(* the schema dict: a value invalid for the literal key's value schema is   *)
(* reported, not accepted through another candidate.                        *)
LiteralOf(sk) == IF IsMarker(sk) THEN sk.schema ELSE sk

C6_LiteralKeyFirst ==
    DictCall =>
        \A i \in 1..Len(data.v) : \A j \in 1..Len(SchemaItems) :
            (/\ LiteralOf(SchemaItems[j].key).s = "lit"
             /\ LiteralOf(SchemaItems[j].key).val = data.v[i].key
             /\ IsExc(Validate(schema, SchemaItems[j].value, <<data.v[i].key>>,
                               data.v[i].value, hash_order)))
            => /\ Failed
               /\ \E e \in Errors : e.path # <<>> /\ e.path[1] = data.v[i].key

(* C7: every error of a failed call about a value of the input carries the  *)
(* path that leads from the root of the input to that value: the path walks *)
(* the input key by key and index by index (into a tuple key when it is a   *)
(* component of the key that failed), and for a schema without alternatives *)
(* the paths reported are the paths at which schema and input disagree.     *)
IsValue(seg) == "t" \in DOMAIN seg

\* Follow path in x: the value it leads to, if it leads anywhere.
RECURSIVE Walk(_, _)
Walk(x, path) ==
    IF path = <<>> THEN [found |-> TRUE, v |-> x]
    ELSE LET seg == Head(path)
         IN  IF x.t = "dict" /\ seg \in DictKeys(x.v)
             THEN Walk(DictValue(x.v, seg), Tail(path))
             ELSE IF /\ x.t \in {"list", "tuple"} /\ IsValue(seg) /\ seg.t = "int"
                     /\ seg.v + 1 \in 1..Len(x.v)
             THEN Walk(x.v[seg.v + 1], Tail(path))
             ELSE [found |-> FALSE, v |-> None]

Front(path) == SubSeq(path, 1, Len(path) - 1)

\* The values a path designates in the input: the value found by following
\* it through dict values and sequence elements, and, for a path that goes
\* through a dict key that is itself a tuple, the component of that key.
Targets(path) ==
    (IF Walk(data, path).found THEN {Walk(data, path).v} ELSE {})
    \cup {Walk(path[n], SubSeq(path, n + 1, Len(path))).v :
             n \in {n \in 1..Len(path) :
                      /\ Walk(data, SubSeq(path, 1, n)).found
                      /\ IsValue(path[n]) /\ path[n].t = "tuple"
                      /\ Walk(path[n], SubSeq(path, n + 1, Len(path))).found}}

\* The error is where its path says: the value there is one the message fits.
WellPlaced(e) ==
    LET m == e.error_message
    IN  CASE m = <<"extra keys not allowed">> ->
                 /\ e.path # <<>> /\ Walk(data, e.path).found
                 /\ Walk(data, Front(e.path)).v.t = "dict"
          [] m = <<"expected a dictionary">> ->
                 \E x \in Targets(e.path) : x.t # "dict"
          [] Len(m) = 2 /\ m[1] = "expected a " ->
                 \E x \in Targets(e.path) : x.t # m[2]
          [] Len(m) = 2 /\ m[1] = "expected " ->
                 \E x \in Targets(e.path) : ~IsInstance(x, m[2])
          [] Len(m) = 3 /\ m[1] = "invalid " ->
                 /\ e.path # <<>> /\ Targets(e.path) # {}
                 /\ \E x \in Targets(Front(e.path)) : x.t = m[2]
          [] OTHER -> Targets(e.path) # {}

\* Schemas without alternatives: types, dicts of literal keys, lists of one
\* alternative, All and Any of one validator.
RECURSIVE Plain(_)
Plain(sk) ==
    CASE sk.s = "type" -> TRUE
      [] sk.s = "dict" ->
            \A i \in 1..Len(sk.items) :
                sk.items[i].key.s = "lit" /\ Plain(sk.items[i].value)
      [] sk.s = "list" -> Len(sk.alts) = 1 /\ Plain(sk.alts[1])
      [] sk.s \in {"All", "Any"} ->
            Len(sk.validators) = 1 /\ sk.msg = NoMsg /\ Plain(sk.validators[1])
      [] OTHER -> FALSE

\* For a plain schema, the paths at which the input is not what the schema
\* asks for, found by descending schema and input together.
RECURSIVE Mismatches(_, _, _, _)
Mismatches(sk, x, path, extra) ==
    CASE sk.s = "type" -> IF IsInstance(x, sk.name) THEN {} ELSE {path}
      [] sk.s = "dict" ->
            IF x.t # "dict" THEN {path}
            ELSE LET named == {sk.items[h].key.val : h \in 1..Len(sk.items)}
                     given == {x.v[n].key : n \in 1..Len(x.v)}
                 IN  UNION {UNION {Mismatches(sk.items[h].value, x.v[n].value,
                                              path \o <<x.v[n].key>>, extra) :
                                      h \in {h \in 1..Len(sk.items) :
                                                sk.items[h].key.val = x.v[n].key}} :
                               n \in 1..Len(x.v)}
                     \cup (IF extra THEN {} ELSE {path \o <<k>> : k \in given \ named})
      [] sk.s = "list" ->
            IF x.t # "list" THEN {path}
            ELSE UNION {Mismatches(sk.alts[1], x.v[n], path \o <<PyInt(n - 1)>>,
                                   extra) : n \in 1..Len(x.v)}
      [] OTHER -> Mismatches(sk.validators[1], x, path, sk.extra)

MismatchPaths == Mismatches(schema.schema, data, <<>>, schema.extra)

\* The messages of the errors raised for keys that are missing.
RECURSIVE KeyMsgs(_)
KeyMsgs(sk) ==
    CASE sk.s = "dict" ->
            UNION {KeyMsgs(sk.items[h].value)
                   \cup (IF IsMarker(sk.items[h].key)
                         THEN {RequiredMsg(sk.items[h].key)} ELSE {}) :
                      h \in 1..Len(sk.items)}
      [] sk.s \in {"list", "tuple"} -> UNION {KeyMsgs(sk.alts[h]) : h \in 1..Len(sk.alts)}
      [] sk.s \in {"All", "Any"} ->
            UNION {KeyMsgs(sk.validators[h]) : h \in 1..Len(sk.validators)}
      [] OTHER -> {}

\* The errors about a value of the input, as opposed to a key it lacks.
LeafFailures ==
    {e \in Errors : e.error_message \notin
                        KeyMsgs(schema.schema) \cup {<<"required key not provided">>}}

C7_WitnessCallable ==
    /\ Failed /\ schema.schema.s = "dict" /\ Len(SchemaItems) = 1
    /\ SchemaItems[1].value.s = "All"
    /\ \E e \in LeafFailures : Len(e.path) = 2

(* C8: when every alternative of Any fails and no msg is configured, Any    *)
(* raises the error of the first alternative among those whose error path   *)
(* is longest.                                                              *)
AnyCall == Done /\ schema.schema.s = "Any" /\ schema.schema.msg = NoMsg
                /\ schema.schema.validators # <<>>

\* what alternative j raises or returns
Alternative(j) ==
    Schema__call__(Schema(schema.schema.validators[j], schema.schema.required,
                          schema.schema.extra), data, hash_order)
AllAlternativesFail == \A j \in 1..Len(schema.schema.validators) : IsExc(Alternative(j))
Depth(j) == Len(ExcPath(Alternative(j)))
FirstDeepest ==
    CHOOSE j \in 1..Len(schema.schema.validators) :
        /\ \A h \in 1..Len(schema.schema.validators) : Depth(h) <= Depth(j)
        /\ \A h \in 1..(j - 1) : Depth(h) < Depth(j)

C8_AnyRaisesFirstDeepest ==
    (AnyCall /\ AllAlternativesFail) =>
        /\ Failed
        /\ result.errors = <<Alternative(FirstDeepest).errors[1]>>

\* The second alternative fails deeper than the first and its error is raised.
C8_Witness ==
    /\ AnyCall /\ AllAlternativesFail /\ Len(schema.schema.validators) = 2
    /\ Depth(2) > Depth(1)
    /\ result.errors = <<Alternative(2).errors[1]>>

\* Two alternatives fail at the same depth with different errors: the first stays.
C8_WitnessTie ==
    /\ AnyCall /\ AllAlternativesFail /\ Len(schema.schema.validators) = 2
    /\ Depth(2) = Depth(1)
    /\ Alternative(1).errors[1] # Alternative(2).errors[1]
    /\ result.errors = <<Alternative(1).errors[1]>>

(* C9: a failed call of a Schema raises a MultipleInvalid holding at least  *)
(* one error: a plain Invalid of the compiled root is wrapped into a        *)
(* MultipleInvalid of that one error, a MultipleInvalid is raised as it is. *)
C9_AlwaysMultipleInvalid ==
    Done =>
        /\ result.k # "Invalid"
        /\ result.k = "ok" <=> raw.k = "ok"
        /\ result.k = "MultipleInvalid" <=> IsExc(raw)
        /\ Failed => Len(result.errors) >= 1
        /\ raw.k = "Invalid" => result = RaiseMultiple(<<raw.errors[1]>>)
        /\ raw.k = "MultipleInvalid" => result = raw

\* A plain Invalid of the root, wrapped.
C9_Witness ==
    /\ Done /\ raw.k = "Invalid" /\ result.k = "MultipleInvalid"
    /\ Len(result.errors) = 1

(* C10: for a non-empty list schema, an element is accepted if and only if  *)
(* some alternative accepts it, and the output element is what the first    *)
(* accepting alternative returns, however an earlier alternative failed.    *)
ElementOutcome(j, i) ==
    Validate(schema, schema.schema.alts[j], <<PyInt(i - 1)>>, data.v[i], hash_order)
FirstAccepting(i) ==
    CHOOSE j \in 1..Len(schema.schema.alts) :
        /\ ~IsExc(ElementOutcome(j, i))
        /\ \A h \in 1..(j - 1) : IsExc(ElementOutcome(h, i))

C10_FirstAcceptingAlternative ==
    ListCall =>
        /\ result.k = "ok" <=>
              \A i \in 1..Len(data.v) :
                  \E j \in 1..Len(schema.schema.alts) : ~IsExc(ElementOutcome(j, i))
        /\ result.k = "ok" =>
              /\ Len(result.v.v) = Len(data.v)
              /\ \A i \in 1..Len(data.v) :
                    result.v.v[i] = ElementOutcome(FirstAccepting(i), i).v

(* C11: for a non-empty list schema, every input element that all the       *)
(* alternatives reject has its error in the MultipleInvalid raised after    *)
(* the last element: 'invalid list value' at [i], or the deeper error seen  *)
(* for the element; the elements after a failing one are validated too.     *)
RejectedElement(i) ==
    \A j \in 1..Len(schema.schema.alts) : IsExc(ElementOutcome(j, i))
DeepestOfElement(i) ==
    CHOOSE n \in 0..MaxSize :
        /\ \E j \in 1..Len(schema.schema.alts) : Len(ExcPath(ElementOutcome(j, i))) = n
        /\ \A j \in 1..Len(schema.schema.alts) : Len(ExcPath(ElementOutcome(j, i))) <= n

C11_EveryRejectedElementReported ==
    ListCall =>
        \A i \in 1..Len(data.v) :
            RejectedElement(i) =>
                /\ raw.k = "MultipleInvalid"
                /\ \E e \in Errors :
                      /\ e.path # <<>> /\ e.path[1] = PyInt(i - 1)
                      /\ DeepestOfElement(i) <= 1 =>
                            e = Invalid(<<"invalid ", "list", " value">>,
                                        <<PyInt(i - 1)>>, NoMsg)
                      /\ DeepestOfElement(i) > 1 => Len(e.path) > 1

(* C12: a list or tuple schema without alternatives accepts every value of  *)
(* its container type, empty or not, and returns it unchanged; a value of   *)
(* another type is rejected with 'expected a list' / 'expected a tuple'.    *)
EmptySequenceCall ==
    Done /\ schema.schema.s \in {"list", "tuple"} /\ schema.schema.alts = <<>>

ExactSequenceCall == Done /\ schema.schema.s = "ExactSequence"

ElementValid(i) ==
    ~IsExc(Schema__call__(Schema(schema.schema.validators[i], FALSE, FALSE),
                          data.v[i], hash_order))

C13_ExactSequenceChecksLength ==
    ExactSequenceCall =>
        /\ result.k = "ok" <=>
              /\ data.t \in {"list", "tuple"}
              /\ Len(data.v) = Len(schema.schema.validators)
              /\ \A i \in 1..Len(data.v) : ElementValid(i)
        /\ result.k = "ok" => result.v.t = data.t /\ Len(result.v.v) = Len(data.v)

(* C14: bool as a schema is an instance check that rejects 1, 0 and '';     *)
(* True as a schema compiles as a literal that accepts True and the         *)
(* integer 1, which equal it, and rejects False.                            *)
C14_BoolTypeAndLiteral ==
    /\ (Done /\ schema.schema = bool) =>
          /\ data \in {PyInt(1), PyInt(0), PyStr("")} => Failed
          /\ data.t = "bool" => result = Ok(data)
    /\ schema.schema = Lit(PyBool(TRUE)) =>
          /\ pc # "SchemaError"
          /\ Done =>
                /\ data \in {PyBool(TRUE), PyInt(1)} => result = Ok(data)
                /\ data = PyBool(FALSE) => Failed

(* C15: validation is idempotent on its own output: when S(V) returns V',   *)
(* S(V') returns a value equal to V'.  As stated, for every schema:         *)
C15_Idempotent == pc = "again" => again = Ok(result.v)

\* Schemas that transform nothing: no Coerce, no ExactSequence, no default.
RECURSIVE Pure(_)
Pure(sk) ==
    CASE sk.s \in {"type", "lit", "Extra"} -> TRUE
      [] sk.s = "dict" ->
            \A i \in 1..Len(sk.items) :
                /\ Pure(sk.items[i].key) /\ Pure(sk.items[i].value)
      [] sk.s \in {"list", "tuple"} -> \A i \in 1..Len(sk.alts) : Pure(sk.alts[i])
      [] sk.s \in {"Any", "All"} ->
            \A i \in 1..Len(sk.validators) : Pure(sk.validators[i])
      [] sk.s = "Required" -> sk.default = UNDEFINED /\ Pure(sk.schema)
      [] sk.s = "Optional" -> Pure(sk.schema)
      [] OTHER -> FALSE

\* Schemas whose transformations lie on a single path: a Coerce is the whole
\* schema, the value of a literal key, the one alternative of a list, tuple
\* or Any, or the head of an All whose other validators transform nothing,
\* and every default is a value its key's value schema returns unchanged.
RECURSIVE SinglePath(_, _)
SinglePath(self, sk) ==
    \/ Pure(sk)
    \/ CASE sk.s = "Coerce" -> TRUE
         [] sk.s = "dict" ->
               \A i \in 1..Len(sk.items) :
                   LET key == sk.items[i].key
                   IN  /\ LiteralOf(key).s = "lit"
                       /\ SinglePath(self, sk.items[i].value)
                       /\ (key.s = "Required" /\ key.default # UNDEFINED) =>
                             Validate(self, sk.items[i].value, <<>>, key.default,
                                      "items") = Ok(key.default)
         [] sk.s \in {"list", "tuple"} ->
               Len(sk.alts) = 1 /\ SinglePath(self, sk.alts[1])
         [] sk.s = "Any" ->
               /\ Len(sk.validators) = 1
               /\ SinglePath(Schema(sk.validators[1], sk.required, sk.extra),
                             sk.validators[1])
         [] sk.s = "All" ->
               /\ sk.validators # <<>>
               /\ SinglePath(Schema(sk.validators[1], sk.required, sk.extra),
                             sk.validators[1])
               /\ \A i \in 2..Len(sk.validators) : Pure(sk.validators[i])
         [] OTHER -> FALSE

(* C15, amended: S(V') returns V' for the schemas that transform nothing,   *)
(* whose output is the input itself, and for the schemas whose              *)
(* transformations lie on a single path.                                    *)
C15_IdempotentOnSinglePath ==
    /\ (Done /\ result.k = "ok" /\ Pure(schema.schema)) => result.v = data
    /\ (pc = "again" /\ SinglePath(schema, schema.schema)) => again = Ok(result.v)

\* A second call on an output that the first call transformed.
C15_Witness ==
    /\ pc = "again" /\ SinglePath(schema, schema.schema) /\ ~Pure(schema.schema)
    /\ result.v # data
    /\ again = Ok(result.v)

---------------------------------------------------------------------------
(* C16: validating a dict against a schema of N marker-wrapped literal     *)
(* keys, the dict having N keys, makes at most N key-validator calls in    *)
(* all: the per-key counter never exceeds N.                               *)

\* every key of the dict schema is a marker around a literal
MarkedLiteralKeys ==
    \A j \in 1..Len(SchemaItems) :
        IsMarker(SchemaItems[j].key) /\ SchemaItems[j].key.schema.s = "lit"

C16_AtMostNKeyEvaluations ==
    (DictCall /\ MarkedLiteralKeys /\ Len(data.v) = Len(SchemaItems))
        => counter <= Len(SchemaItems)

---------------------------------------------------------------------------
(* C17: validation never stores into the data it is given nor into a       *)
(* container inside it, whether it succeeds or fails; a result that        *)
(* differs from the data is an object that validation built.               *)

C17_InputNeverModified ==
    Done => /\ GivenObject \notin effect.stores
            /\ (result.k = "ok" /\ result.v # data) => effect.ret = BuiltObject

\* a dict holding a container is accepted: validation stored, and only into
\* the dicts and lists it built
C17_Witness ==
    /\ DictCall /\ result.k = "ok"
    /\ \E i \in 1..Len(data.v) : data.v[i].value.t \in {"dict", "list"}
    /\ effect = Effect({BuiltObject}, BuiltObject)

\* a result that differs from the data
C17_WitnessChanged ==
    DictCall /\ result.k = "ok" /\ result.v # data /\ effect.ret = BuiltObject

\* a failed validation that had stored before it failed
C17_WitnessFailed ==
    DictCall /\ Failed /\ effect.stores = {BuiltObject}

---------------------------------------------------------------------------
(* C18: within one top-level call, the cache asked twice for the same      *)
(* validator function and the same data object invokes the validator only  *)
(* once, the second request being answered with the stored result.         *)

CacheKeys == Funcs \X DataIds

C18_WitnessRaised ==
    \E c \in 1..Len(hist), key \in CacheKeys :
        hist[c][key].first = "raised" /\ hist[c][key].invocations = 2

---------------------------------------------------------------------------
(* C19: every call of a cached validator with a plain path list works on   *)
(* a cache of its own, new and empty: the n-th such call uses the n-th     *)
(* cache ever made, whatever other calls are in progress, and a cache      *)
(* holds nothing but what its own call stored.                             *)

C19_FreshCachePerCall ==
    /\ Len(caches) = calls
    /\ \A t \in Threads : \A i \in 1..Len(frames[t]) :
           frames[t][i]._cache = frames[t][i].call
    /\ \A c \in 1..Len(caches), key \in CacheKeys :
           caches[c][key] # Absent => caches[c][key].call = c

\* two calls in progress at once, the second invoking the validator for a
\* (function, object) that the cache of the first already holds
C19_Witness ==
    \E t \in Threads : \E u \in Threads \ {t} :
        /\ frames[t] # <<>> /\ frames[u] # <<>>
        /\ frames[t][1].call < frames[u][1].call
        /\ LET running == frames[u][Len(frames[u])]
           IN  caches[frames[t][1]._cache]
                     [<<running.validator_func, running.data>>] # Absent

---------------------------------------------------------------------------
(* C20: when the value of a dict key is validated by All or Any around a   *)
(* dict schema and several keys of that inner dict fail, the               *)
(* MultipleInvalid of the top-level call holds every one of those          *)
(* failures, each at its full path, the outer key followed by the inner    *)
(* path.                                                                   *)

\* pair i is taken by a key whose value schema is All or Any around one
\* dict schema
Wrapped(i) ==
    /\ Candidate(data.v[i].key) # 0
    /\ LET sk == SchemaItems[Candidate(data.v[i].key)].value
       IN  /\ sk.s \in {"Any", "All"}
           /\ Len(sk.validators) = 1
           /\ sk.validators[1].s = "dict"

\* what the inner dict schema, called on its own, does with the value
InnerOutcome(i) ==
    LET sk == SchemaItems[Candidate(data.v[i].key)].value
    IN  Schema__call__(Schema(sk.validators[1], sk.required, sk.extra),
                       data.v[i].value, hash_order)

C20_EveryNestedFailureExposed ==
    DictCall =>
        \A i \in 1..Len(data.v) :
            (Wrapped(i) /\ IsExc(InnerOutcome(i))) =>
                /\ Failed
                /\ \A n \in 1..Len(InnerOutcome(i).errors) :
                      \E e \in Errors :
                          e.path = <<data.v[i].key>> \o InnerOutcome(i).errors[n].path

---------------------------------------------------------------------------
(* C21: once a candidate's key validator has accepted an input key, a      *)
(* failure of the candidate's value validator is recorded as the error of  *)
(* the pair and ends the pair: no later candidate is tried, also when one  *)
(* would take both key and value, and the output gets nothing for the      *)
(* pair.                                                                   *)

\* the loop state of validate_mapping after the first i pairs of the input
LoopAfter(i) ==
    pairs(schema, SchemaItems, <<" for dictionary value">>, <<>>,
          SubSeq(data.v, 1, i), 1,
          MappingState(<<>>, default_required_keys(schema, SchemaItems)), hash_order)

\* a candidate after the one that took the key accepts both key and value
LaterCandidateAccepts(i) ==
    \E j \in (Candidate(data.v[i].key) + 1)..Len(SchemaItems) :
        /\ KeyAccepted(j, data.v[i].key)
        /\ ~IsExc(Validate(schema, SchemaItems[j].value, <<data.v[i].key>>,
                           data.v[i].value, hash_order))

C21_NoBacktracking ==
    DictCall =>
        \A i \in 1..Len(data.v) :
            (BadValuePair(i) /\ LoopAfter(i).raised = None) =>
                /\ LoopAfter(i).errors =
                      LoopAfter(i - 1).errors
                      \o value_errors(ValueOutcome(i).errors, <<data.v[i].key>>,
                                      <<" for dictionary value">>)
                /\ LoopAfter(i).out = LoopAfter(i - 1).out
                /\ LoopAfter(i).evals =
                      LoopAfter(i - 1).evals + Candidate(data.v[i].key)
                /\ LoopAfter(Len(data.v)).raised = None =>
                      /\ Failed
                      /\ \A n \in 1..Len(ValueOutcome(i).errors) :
                            value_errors(ValueOutcome(i).errors, <<data.v[i].key>>,
                                         <<" for dictionary value">>)[n] \in Errors

\* a value failure where a later candidate would have taken key and value
C21_Witness ==
    /\ DictCall /\ Failed
    /\ \E i \in 1..Len(data.v) :
          BadValuePair(i) /\ LoopAfter(i).raised = None /\ LaterCandidateAccepts(i)

---------------------------------------------------------------------------
(* C22: for a dict schema whose key is a callable key validator, every     *)
(* input key the validator rejects gives one error at the path of the key  *)
(* with the validator's own message, and a key it accepts gives none.      *)

\* the dict schema has a single key, a callable that is no marker
CallableKey ==
    /\ Len(SchemaItems) = 1
    /\ IsCallable(SchemaItems[1].key) /\ ~IsMarker(SchemaItems[1].key)

\* what the key validator does with the key of pair i
KeyOutcome(i) ==
    Validate(schema, SchemaItems[1].key, <<data.v[i].key>>, data.v[i].key, hash_order)

C22_KeyValidatorMessageReported ==
    (DictCall /\ CallableKey) =>
        \A i \in 1..Len(data.v) :
            IF IsExc(KeyOutcome(i))
            THEN /\ Failed
                 /\ \E e \in Errors :
                       e.path = <<data.v[i].key>> /\ e.msg = ExcMsg(KeyOutcome(i))
            ELSE (Failed /\ ~IsExc(ValueOutcome(i))) =>
                    ~\E e \in Errors : e.path = <<data.v[i].key>>

---------------------------------------------------------------------------
(* C23: All(v1..vn) applies its validators in the order given, each to the *)
(* output of the one before, and returns the last output; the first        *)
(* validator that fails ends the pipeline, and All raises its error, or    *)
(* an error with msg when All has a msg.                                   *)

AllCall == Done /\ schema.schema.s = "All"

\* what the sub-schema of validator j does when called on x
SubSchema(j, x) ==
    Schema__call__(Schema(schema.schema.validators[j], schema.schema.required,
                          schema.schema.extra), x, hash_order)

\* the outcome of the first j validators, the failure of an earlier one
\* standing for all that follow
Piped[j \in 0..2] ==
    IF j = 0 THEN Ok(data)
    ELSE IF IsExc(Piped[j - 1]) THEN Piped[j - 1]
    ELSE SubSchema(j, Piped[j - 1].v)

Pipeline == Piped[Len(schema.schema.validators)]

C23_AllPipesInOrder ==
    (AllCall /\ Len(schema.schema.validators) <= 2) =>
        IF ~IsExc(Pipeline)
        THEN result = Pipeline
        ELSE /\ Called(schema.schema, data, hash_order) =
                   (IF schema.schema.msg = NoMsg THEN Pipeline
                    ELSE Raise(Invalid(schema.schema.msg, <<>>, NoMsg)))
             /\ Failed
             /\ result.errors[1].msg = (IF schema.schema.msg = NoMsg
                                        THEN Pipeline.errors[1].msg
                                        ELSE schema.schema.msg)

\* the second validator accepted what the first made of the data
C23_Witness ==
    /\ AllCall /\ Len(schema.schema.validators) = 2
    /\ result.k = "ok" /\ result.v # data
    /\ IsExc(SubSchema(2, data))

\* the first validator failed though the second accepts the data
C23_WitnessStopped ==
    /\ AllCall /\ Len(schema.schema.validators) = 2
    /\ IsExc(SubSchema(1, data)) /\ ~IsExc(SubSchema(2, data))

\* All with msg failed
C23_WitnessMsg ==
    AllCall /\ Failed /\ schema.schema.msg # NoMsg

---------------------------------------------------------------------------
(* C24: when Any has a msg and every alternative fails, the error that     *)
(* Any raises carries msg as its message, in place of the error of any     *)
(* alternative.                                                            *)

C24_AnyMsgReplacesError ==
    (Done /\ schema.schema.s = "Any" /\ schema.schema.msg # NoMsg
          /\ AllAlternativesFail) =>
        /\ Failed
        /\ \A e \in Errors : e.msg = schema.schema.msg

---------------------------------------------------------------------------
(* C25: with required=True the Extra key of a dict schema, nested or not,  *)
(* is not a required key: no 'required key not provided' error is ever    *)
(* reported for it, and a dict without extra keys such as {} is accepted   *)
(* by {Extra: object}.                                                     *)

C25_ExtraNeverRequired ==
    (Done /\ schema.required) =>
        /\ Failed =>
              \A e \in Errors :
                  e.path # <<>> => e.path[Len(e.path)] # KeyObject(Extra)
        /\ (schema.schema = D1(Extra, object) /\ data = PyDict(<<>>)) =>
              result = Ok(data)

---------------------------------------------------------------------------
(* C26: within one aggregate the errors stand in the order in which the    *)
(* failures were met, not sorted: for a dict, the errors of the failing    *)
(* input pairs follow the iteration order of the input dict.               *)

\* the position in the input dict of the pair an error belongs to, 0 for an
\* error of the pass over the required keys
PairOf(e) ==
    IF /\ e.path # <<>>
       /\ ~(Len(e.path) = 1 /\ e.msg = <<"required key not provided">>)
       /\ \E i \in 1..Len(data.v) : data.v[i].key = e.path[1]
    THEN CHOOSE i \in 1..Len(data.v) : data.v[i].key = e.path[1]
    ELSE 0

\* for a dict, the errors of the pairs follow the order of the pairs
C26_DictErrorsInEncounterOrder ==
    (DictCall /\ Failed) =>
        \A n \in 1..Len(result.errors) : \A m \in (n + 1)..Len(result.errors) :
            (PairOf(result.errors[n]) # 0 /\ PairOf(result.errors[m]) # 0) =>
                PairOf(result.errors[n]) <= PairOf(result.errors[m])

\* for a list, the errors follow the order of the elements
C26_ListErrorsInEncounterOrder ==
    (ListCall /\ Failed) =>
        \A n \in 1..Len(result.errors) : \A m \in (n + 1)..Len(result.errors) :
            result.errors[n].path[1].v <= result.errors[m].path[1].v

\* C26: the errors of an aggregate stand in the order the failures were met
C26_ErrorsInEncounterOrder ==
    C26_DictErrorsInEncounterOrder /\ C26_ListErrorsInEncounterOrder

\* two failing pairs, 'b' before 'a' in the input: the error of 'b' is first
C26_Witness ==
    /\ DictCall /\ Failed /\ Len(result.errors) >= 2
    /\ Len(data.v) = 2 /\ data.v[1].key = PyStr("b") /\ data.v[2].key = PyStr("a")
    /\ PairOf(result.errors[1]) = 1 /\ PairOf(result.errors[2]) = 2

---------------------------------------------------------------------------
(* C27: a value error of a dict whose path is no deeper than the path of   *)
(* the key is reported with the message followed by ' for dictionary       *)
(* value', the same path, and the undecorated message as error_message; a  *)
(* value error from deeper down is reported unchanged.                     *)

\* how validate_mapping is to report the error err of the value of a key
Reported(err) ==
    IF Len(err.path) > 1 THEN err
    ELSE [msg |-> err.msg \o <<" for dictionary value">>, path |-> err.path,
          error_message |-> err.msg]

\* no pair of the input raised an Invalid out of the loop of validate_mapping
NoDeepRaise == LoopAfter(Len(data.v)).raised \in {None, RaiseTypeError}

C27_ValueErrorDecoration ==
    (DictCall /\ NoDeepRaise) =>
        \A i \in 1..Len(data.v) :
            (BadValuePair(i) /\ LoopAfter(i - 1).raised = None) =>
                /\ Failed
                /\ \A n \in 1..Len(ValueOutcome(i).errors) :
                      Reported(ValueOutcome(i).errors[n]) \in Errors

\* one pair with a shallow value error, decorated, and one with a deep one
C27_Witness ==
    /\ DictCall /\ Failed
    /\ \E i \in 1..Len(data.v) :
          /\ BadValuePair(i)
          /\ Len(ValueOutcome(i).errors[1].path) = 1
          /\ \E e \in Errors :
                /\ e.path = <<data.v[i].key>>
                /\ e.error_message # e.msg
                /\ e.msg = e.error_message \o <<" for dictionary value">>

\* a value error from deeper down, passed on as it is
C27_WitnessDeep ==
    /\ DictCall /\ Failed
    /\ \E i \in 1..Len(data.v) :
          /\ BadValuePair(i)
          /\ Len(ValueOutcome(i).errors[1].path) > 1
          /\ ValueOutcome(i).errors[1] \in Errors

---------------------------------------------------------------------------
(* C28: state + segments gives a new ValidationState whose path is the     *)
(* path of the state followed by the segments and whose cache is the cache *)
(* of the state; the path of a state never changes, neither by an addition *)
(* to it nor by later additions to the states made from it.                *)

\* the path of a state as it is now
PathOf(s) == lists[states[s]._path]

C28_AddDerivesPathSharesCache ==
    \A d \in 1..Len(states) :
        /\ PathOf(d) = made[d].before \o made[d].other
        /\ made[d].from # 0 =>
              /\ made[d].from < d
              /\ states[d]._cache = states[made[d].from]._cache

\* a state, a state made from it by adding segments, and a state made from
\* that one by adding segments again: three paths, one cache
C28_Witness ==
    \E s \in 1..Len(states), d \in 1..Len(states), e \in 1..Len(states) :
        /\ made[d].from = s /\ made[d].other # <<>>
        /\ made[e].from = d /\ made[e].other # <<>>
        /\ PathOf(d) = PathOf(s) \o made[d].other
        /\ PathOf(e) = PathOf(d) \o made[e].other
        /\ states[e]._cache = states[s]._cache

---------------------------------------------------------------------------
(* C30: an invocation of a validator that raises stores no entry for its   *)
(* (validator function, data object), so every later request for the same  *)
(* pair in the same cache invokes the validator again.                     *)

C30_RaisedInvokedAgain ==
    \A c \in 1..Len(hist), key \in CacheKeys :
        \A q \in hist[c][key].retry : q.invoked

(* C30 as amended: a cache holds an entry only for a pair of which an       *)
(* invocation has returned, and a request made after an invocation of the  *)
(* pair raised invokes the validator again as long as no invocation of the *)
(* pair has returned.                                                      *)
C30_OnlyResultsMemoised ==
    \A c \in 1..Len(hist), key \in CacheKeys :
        /\ caches[c][key] # Absent => hist[c][key].returned
        /\ \A q \in hist[c][key].retry : ~q.returned => q.invoked

\* the first request raised, nothing is stored, and the second request
\* invoked the validator again
C30_Witness ==
    \E c \in 1..Len(hist), key \in CacheKeys :
        /\ hist[c][key].first = "raised"
        /\ hist[c][key].retry = {[invoked |-> TRUE, returned |-> FALSE]}
        /\ hist[c][key].invocations = 2

\* an invocation nested in the raising one had returned: the later request
\* is served from the cache
C30_WitnessServed ==
    \E c \in 1..Len(hist), key \in CacheKeys :
        [invoked |-> FALSE, returned |-> TRUE] \in hist[c][key].retry

---------------------------------------------------------------------------
(* C29: the default of an absent Required key goes into the output as it   *)
(* is, without passing the validator of the key's value: the call succeeds *)
(* with the default even when that validator rejects it.                   *)

\* item j has a Required literal key with a default, absent from the input
Defaulted(j) ==
    LET sk == SchemaItems[j].key
    IN  /\ sk.s = "Required" /\ sk.default # UNDEFINED /\ sk.schema.s = "lit"
        /\ sk.schema.val \notin DictKeys(data.v)

\* what the validator of the value of item j does with the default
DefaultOutcome(j) ==
    Validate(schema, SchemaItems[j].value, <<SchemaItems[j].key.schema.val>>,
             SchemaItems[j].key.default, hash_order)

C29_DefaultNotValidated ==
    DictCall =>
        \A j \in 1..Len(SchemaItems) :
            (Defaulted(j) /\ DefaultOutcome(j).k # "ok") =>
                /\ result.k = "ok" =>
                      DictValue(result.v.v, SchemaItems[j].key.schema.val)
                          = SchemaItems[j].key.default
                /\ Failed =>
                      \A e \in Errors : \A n \in 1..Len(DefaultOutcome(j).errors) :
                          e # DefaultOutcome(j).errors[n]

\* Required('a', default='x'): int called on {}: the output is {'a': 'x'}
C29_Witness ==
    /\ DictCall /\ result.k = "ok" /\ data.v = <<>>
    /\ \E j \in 1..Len(SchemaItems) :
          /\ Defaulted(j) /\ IsExc(DefaultOutcome(j))
          /\ SchemaItems[j].value = int
          /\ SchemaItems[j].key.default = PyStr("x")
          /\ result.v.v = <<[key |-> SchemaItems[j].key.schema.val,
                             value |-> PyStr("x")]>>

====
